---- MODULE Spec2Model ----
(***************************************************************************)
(* Model of two components of the repository:                              *)
(*                                                                         *)
(*   - SeleniumStandaloneLauncher (wdio-selenium-standalone-service,       *)
(*     launcher.ts): constructor, onPrepare, onComplete,                   *)
(*     _redirectLogStream and _stopProcess;                                *)
(*   - initialiseServices.ts (src/unnamed/part_000): sanitizeServiceArray, *)
(*     initialiseServices, initialiseLauncherService and                   *)
(*     initialiseWorkerService.                                            *)
(*                                                                         *)
(* JavaScript values are modelled by small records that keep what the      *)
(* code inspects: typeof, truthiness, the members a value has, and         *)
(* whether calling / instantiating it throws.                              *)
(***************************************************************************)
EXTENDS Integers, Sequences, FiniteSets, TLC

VARIABLES
    \* ---- SeleniumStandaloneLauncher ----
    pc,                   \* "off" | "idle" | "awaitInstall" (onPrepare suspended at line 55)
    capabilities,         \* this.capabilities: [isArray, values]
    capsBefore,           \* history: the capabilities as handed to the constructor
    skipSeleniumInstall,  \* this.skipSeleniumInstall
    logPath,              \* this.logPath
    watchMode,            \* this.watchMode
    process,              \* this.process
    handlers,             \* events on which _stopProcess got registered
    logStream,            \* "none" | "open": the write stream of _redirectLogStream
    extCalls,             \* history: invocations of SeleniumStandalone.install/start and of kill
    stopTally,            \* history: _stopProcess invocations while this.process is set
    lastOp,               \* history: the last completed operation and how it ended
    opCount,              \* number of operations started (bounded by MaxOps)
    \* ---- initialiseServices ----
    phase,                \* "off" | "config" | "launched"
    services,             \* config.services
    launcherResult,       \* outcome of initialiseLauncherService
    workerResult,         \* outcome of the last initialiseWorkerService call
    workerPlain           \* outcome of a worker call made with the default ignore list []

vars == << pc, capabilities, capsBefore, skipSeleniumInstall, logPath, watchMode,
           process, handlers, logStream, extCalls, stopTally, lastOp, opCount,
           phase, services, launcherResult, workerResult, workerPlain >>

launcherVars == << pc, capabilities, capsBefore, skipSeleniumInstall, logPath, watchMode,
                   process, handlers, logStream, extCalls, stopTally, lastOp, opCount >>

serviceVars == << phase, services, launcherResult, workerResult, workerPlain >>

(***************************************************************************)
(* Bounds of the model.                                                    *)
(***************************************************************************)
\* capability descriptors in a capabilities set
MaxCaps == 2
\* operations (onPrepare, onComplete, _stopProcess) started on one launcher
MaxOps == 2
\* entries of config.services
MaxServices == 2

(***************************************************************************)
(* JavaScript values used by launcher.ts                                   *)
(***************************************************************************)
UNDEFINED == "<undefined>"

\* DEFAULT_CONNECTION.port
DefaultPort == 4444

DEFAULT_CONNECTION ==
    [protocol |-> "http", hostname |-> "localhost", port |-> DefaultPort, path |-> "/wd/hub"]

ConnectionFields == DOMAIN DEFAULT_CONNECTION

CustomValue(f) ==
    CASE f = "protocol" -> "https"
      [] f = "hostname" -> "grid.local"
      [] f = "port"     -> 4723
      [] f = "path"     -> "/"
      [] OTHER          -> "chrome"

\* Capability descriptors: every descriptor has browserName; each connection
\* field is absent or set by the user; one descriptor has protocol as an own
\* property whose value is undefined.
Descriptors ==
    { [f \in D \cup {"browserName"} |-> CustomValue(f)] : D \in SUBSET ConnectionFields }
    \cup { [browserName |-> "chrome", protocol |-> UNDEFINED, port |-> 4723] }

SeqsUpTo(S, n) == UNION { [1..k -> S] : k \in 0..n }

\* A capabilities set: an array of descriptors, or an object whose values are
\* descriptors (values listed in key order).
CapabilitySets ==
    { [isArray |-> a, values |-> v] : a \in BOOLEAN, v \in SeqsUpTo(Descriptors, MaxCaps) }

\* options.args || {} and options.installArgs || {} of the constructor
StartArgs == "args"
InstallArgs == "installArgs"

\* The value of a field that was never assigned, or undefined itself.
UndefinedValue == [typ |-> "undefined", target |-> "", boundThis |-> ""]

\* fn.bind(thisArg): a new function around fn with `this` bound; nothing is called.
Bind(fn, thisArg) == [typ |-> "function", target |-> fn, boundThis |-> thisArg]

\* util.promisify(f): a new function around f; nothing is called.
Promisify(f) == [typ |-> "function", target |-> f.target, boundThis |-> f.boundThis]

Truthy(v) == v.typ # "undefined"

\* Whether v.m is a function. A child process handle has on and kill; a
\* (promisified, bound) function has neither.
HasMethod(v, m) == v.typ = "childProcess" /\ m \in {"on", "kill"}

\* Object.assign(target, source) on own enumerable properties
ObjectAssign(target, source) ==
    [k \in DOMAIN target \cup DOMAIN source |->
        IF k \in DOMAIN source THEN source[k] ELSE target[k]]

\* a merge that forgets the copy of cap: Object.assign(cap, DEFAULT_CONNECTION)
MergeDefaultsOverwrite(cap) == ObjectAssign(cap, DEFAULT_CONNECTION)

\* Object.assign(cap, DEFAULT_CONNECTION, { ...cap })
MergeDefaults(cap) == ObjectAssign(ObjectAssign(cap, DEFAULT_CONNECTION), cap)

\* Object.values(caps): the descriptors held under the object's keys, in key order
ObjectValues(caps) == caps.values

\* Array.isArray(caps) ? caps : Object.values(caps)
CapabilityList(caps) == IF caps.isArray THEN caps.values ELSE ObjectValues(caps)

\* (...).forEach((cap) => Object.assign(cap, DEFAULT_CONNECTION, { ...cap }))
UpdateCapabilities(caps) ==
    LET list == CapabilityList(caps)
    IN  [caps EXCEPT !.values = [i \in DOMAIN list |-> MergeDefaults(list[i])]]

\* constructor: this.logPath = options.logPath || config.outputDir
ConstructLogPath(optLogPath, outputDir) ==
    IF optLogPath # UNDEFINED THEN optLogPath ELSE outputDir

\* _stopProcess: what one invocation does with this.process
StopOutcome(p) ==
    IF Truthy(p)
    THEN IF HasMethod(p, "kill") THEN "killed" ELSE "TypeError"
    ELSE "noop"

NoOp == [op |-> "none", raised |-> "none", stop |-> "notCalled", watch |-> FALSE]

\* the effect of one _stopProcess invocation on the history variables
StopEffect(opName) ==
    LET out == StopOutcome(process)
    IN  /\ stopTally' = IF Truthy(process)
                         THEN [calls  |-> stopTally.calls + 1,
                               kills  |-> stopTally.kills + (IF out = "killed" THEN 1 ELSE 0),
                               raised |-> stopTally.raised + (IF out = "TypeError" THEN 1 ELSE 0)]
                         ELSE stopTally
        /\ extCalls' = IF out = "killed" THEN Append(extCalls, <<"kill", "">>) ELSE extCalls
        /\ lastOp' = [op |-> opName,
                      raised |-> IF out = "TypeError" THEN "TypeError" ELSE "none",
                      stop |-> out, watch |-> watchMode]

\* onPrepare from line 58 on: merge the defaults, "start", redirect, register
PrepareRest(watch, fsOk) ==
    LET proc     == Promisify(Bind("start", StartArgs))
        redirect == logPath # UNDEFINED
        fsFail   == redirect /\ ~fsOk
        register == ~fsFail /\ watch
    IN  /\ capabilities' = UpdateCapabilities(capabilities)
        /\ process' = proc
        /\ logStream' = IF redirect /\ fsOk THEN "open" ELSE logStream
        /\ handlers' = IF register /\ HasMethod(proc, "on")
                        THEN handlers \cup {"SIGINT", "exit", "uncaughtException"}
                        ELSE handlers
        /\ lastOp' = [op |-> "onPrepare",
                      raised |-> IF fsFail THEN "fsError"
                                 ELSE IF register /\ ~HasMethod(proc, "on") THEN "TypeError"
                                 ELSE "none",
                      stop |-> "notCalled", watch |-> watch]
        /\ pc' = "idle"

\* onPrepare(config) up to its first suspension point (or to its end)
onPrepare(watch, fsOk) ==
    /\ pc = "idle"
    /\ opCount < MaxOps
    /\ opCount' = opCount + 1
    /\ watchMode' = watch
    /\ IF ~skipSeleniumInstall
       THEN \* await promisify(SeleniumStandalone.install.bind(this.installArgs)):
            \* the awaited value is a function, install itself is not called
            /\ pc' = "awaitInstall"
            /\ UNCHANGED << capabilities, process, logStream, handlers, lastOp >>
       ELSE PrepareRest(watch, fsOk)
    /\ UNCHANGED << capsBefore, skipSeleniumInstall, logPath, extCalls, stopTally >>
    /\ UNCHANGED serviceVars

\* onPrepare resumed after the await of line 55
onPrepareResume(fsOk) ==
    /\ pc = "awaitInstall"
    /\ PrepareRest(watchMode, fsOk)
    /\ UNCHANGED << capsBefore, skipSeleniumInstall, logPath, watchMode, extCalls,
                    stopTally, opCount >>
    /\ UNCHANGED serviceVars

onComplete ==
    /\ pc \in {"idle", "awaitInstall"}
    /\ opCount < MaxOps
    /\ opCount' = opCount + 1
    /\ IF ~watchMode
       THEN StopEffect("onComplete")
       ELSE /\ lastOp' = [op |-> "onComplete", raised |-> "none",
                          stop |-> "notCalled", watch |-> watchMode]
            /\ UNCHANGED << stopTally, extCalls >>
    /\ UNCHANGED << pc, capabilities, capsBefore, skipSeleniumInstall, logPath, watchMode,
                    process, handlers, logStream >>
    /\ UNCHANGED serviceVars

\* _stopProcess invoked directly through the public member
_stopProcess ==
    /\ pc \in {"idle", "awaitInstall"}
    /\ opCount < MaxOps
    /\ opCount' = opCount + 1
    /\ StopEffect("_stopProcess")
    /\ UNCHANGED << pc, capabilities, capsBefore, skipSeleniumInstall, logPath, watchMode,
                    process, handlers, logStream >>
    /\ UNCHANGED serviceVars

(***************************************************************************)
(* JavaScript values used by initialiseServices.ts                         *)
(***************************************************************************)
\* What a property (.launcher, .default) of a value holds: nothing (undefined),
\* a function, or a truthy value that is not callable (an object).
Props == {"none", "fn", "obj"}

Shape(t, l, d, th) == [typ |-> t, launcher |-> l, default |-> d, throws |-> th]

NoShape == Shape("none", "none", "none", FALSE)

\* The objects and functions a module can export or a user can configure:
\* typeof (object or function), the launcher and default properties, and
\* whether instantiating a constructor taken from it throws.
ExportShapes ==
    { Shape(t, l, d, FALSE) : t \in {"object", "function"}, l \in Props, d \in Props }
    \cup { Shape("function", "none", "none", TRUE),
           Shape("object", "fn", "fn", TRUE),
           Shape("object", "none", "fn", TRUE) }

\* A package of the plugin registry: resolvable with its exports, or not resolvable.
Packages ==
    { [found |-> TRUE, exports |-> s] : s \in ExportShapes }
    \cup { [found |-> FALSE, exports |-> NoShape] }

NoPackage == [found |-> FALSE, exports |-> NoShape]

\* a string naming a package
StringValue(pkg) ==
    [typ |-> "string", launcher |-> "none", default |-> "none", throws |-> FALSE, pkg |-> pkg]

\* an object or a function
ObjectValue(shape) ==
    [typ |-> shape.typ, launcher |-> shape.launcher, default |-> shape.default,
     throws |-> shape.throws, pkg |-> NoPackage]

\* the undefined third element of a resolved pair
NoName == [typ |-> "undefined", launcher |-> "none", default |-> "none",
           throws |-> FALSE, pkg |-> NoPackage]

\* a pre-built hook object, e.g. { beforeTest: () => {} }
HookObject == ObjectValue(Shape("object", "none", "none", FALSE))

\* what a user can put first in a service entry: a package name, a class, a hook object
EntryValues ==
    { StringValue(p) : p \in Packages }
    \cup { ObjectValue(s) : s \in { x \in ExportShapes : x.typ = "function" } }
    \cup { HookObject }

EmptyOptions == "{}"
UserOptions == "{ opt: 1 }"

\* WebdriverIO.ServiceEntry: a bare value, or the array [value, options]
ServiceEntries ==
    { [isArray |-> FALSE, value |-> v, options |-> EmptyOptions] : v \in EntryValues }
    \cup { [isArray |-> TRUE, value |-> v, options |-> UserOptions] : v \in EntryValues }

\* config.services: undefined, or a list of entries
ServiceConfigs ==
    { [defined |-> FALSE, list |-> << >>] }
    \cup { [defined |-> TRUE, list |-> l] : l \in SeqsUpTo(ServiceEntries, MaxServices) }

Caps == "caps"
Config == "config"

\* initialisePlugin(name, 'service'): the module of the package, or an exception
initialisePlugin(name) ==
    IF name.pkg.found
    THEN [threw |-> FALSE, module |-> ObjectValue(name.pkg.exports)]
    ELSE [threw |-> TRUE, module |-> NoName]

\* sanitizeServiceArray: Array.isArray(service) ? service : [service, {}]
sanitizeServiceArray(service) ==
    IF service.isArray THEN << service.value, service.options >>
    ELSE << service.value, EmptyOptions >>

\* services.map(sanitizeServiceArray)
SanitizeAll(list) == [i \in DOMAIN list |-> sanitizeServiceArray(list[i])]

\* initialiseServices: the loop from entry i on, with the services initialised
\* so far and the packages handed to initialisePlugin so far
RECURSIVE initialiseServicesFrom(_, _, _, _)
initialiseServicesFrom(list, i, initialisedServices, loads) ==
    IF i > Len(list)
    THEN [threw |-> FALSE, at |-> 0, resolved |-> initialisedServices, loads |-> loads]
    ELSE LET serviceName   == list[i][1]
             serviceConfig == list[i][2]
         IN  IF serviceName.typ = "object"
             THEN initialiseServicesFrom(list, i + 1,
                      Append(initialisedServices,
                             [service |-> serviceName, serviceConfig |-> EmptyOptions,
                              serviceName |-> NoName]), loads)
             ELSE IF serviceName.typ = "function"
             THEN initialiseServicesFrom(list, i + 1,
                      Append(initialisedServices,
                             [service |-> serviceName, serviceConfig |-> serviceConfig,
                              serviceName |-> NoName]), loads)
             ELSE LET service == initialisePlugin(serviceName)
                  IN  IF service.threw
                      THEN [threw |-> TRUE, at |-> i, resolved |-> << >>,
                            loads |-> Append(loads, serviceName)]
                      ELSE initialiseServicesFrom(list, i + 1,
                               Append(initialisedServices,
                                      [service |-> service.module,
                                       serviceConfig |-> serviceConfig,
                                       serviceName |-> serviceName]),
                               Append(loads, serviceName))

initialiseServices(list) == initialiseServicesFrom(list, 1, << >>, << >>)

\* !serviceName
NotNamed(serviceName) == serviceName.typ = "undefined"

\* a service handed on as it is
PassThrough(service) ==
    [kind |-> "object", value |-> service, via |-> "none",
     args |-> << EmptyOptions, Caps, Config >>]

\* new X(serviceConfig, caps, config), X taken from service (its launcher, its
\* default, or service itself)
Instance(service, via, serviceConfig) ==
    [kind |-> "instance", value |-> service, via |-> via,
     args |-> << serviceConfig, Caps, Config >>]

\* a lookup that forgets the launcher variant: always the service itself
LauncherOfSelfOnly(service) ==
    [via |-> "self", isFunction |-> service.typ = "function"]

\* (service).launcher || service: which value is picked, and whether it is a function
LauncherOf(service) ==
    IF service.launcher # "none"
    THEN [via |-> "launcher", isFunction |-> service.launcher = "fn"]
    ELSE [via |-> "self", isFunction |-> service.typ = "function"]

\* a lookup that forgets the default export: always the service itself
ServiceOfSelfOnly(service) ==
    [via |-> "self", isFunction |-> service.typ = "function"]

\* (service).default || service
ServiceOf(service) ==
    IF service.default # "none"
    THEN [via |-> "default", isFunction |-> service.default = "fn"]
    ELSE [via |-> "self", isFunction |-> service.typ = "function"]

\* a check that forgets the default export: every named non-callable module is ignored
IsIgnoredWithoutDefaultCheck(service, serviceName) ==
    /\ serviceName.typ # "undefined"
    /\ service.typ # "function"

\* the check of lines 121-125: the service needs no worker instance
IsIgnoredInWorker(service, serviceName) ==
    /\ ~NotNamed(serviceName)
    /\ service.default # "fn"
    /\ service.typ # "function"

\* what initialiseLauncherService returns, and what it did on the way
LauncherReturn(ignored, launched, logged, at, stage, loads, constructed) ==
    [done |-> TRUE, threw |-> FALSE,
     ignoredWorkerServices |-> ignored, launcherServices |-> launched,
     logged |-> logged, raisedAt |-> at, stage |-> stage,
     loads |-> loads, constructed |-> constructed]

\* initialiseLauncherService: the loop of lines 101-128 from entry i on
RECURSIVE launcherLoop(_, _, _, _, _, _)
launcherLoop(resolved, i, ignored, launched, loads, constructed) ==
    IF i > Len(resolved)
    THEN LauncherReturn(ignored, launched, FALSE, 0, "none", loads, constructed)
    ELSE LET service       == resolved[i].service
             serviceConfig == resolved[i].serviceConfig
             serviceName   == resolved[i].serviceName
             Launcher      == LauncherOf(service)
         IN  IF service.typ = "object" /\ NotNamed(serviceName)
             THEN launcherLoop(resolved, i + 1, ignored,
                               Append(launched, PassThrough(service)), loads, constructed)
             ELSE IF Launcher.isFunction /\ service.throws
             THEN \* new Launcher(...) throws: caught at line 129
                  LauncherReturn(ignored, launched, TRUE, i, "instantiate", loads,
                                 constructed + 1)
             ELSE launcherLoop(resolved, i + 1,
                      IF IsIgnoredInWorker(service, serviceName)
                      THEN Append(ignored, serviceName) ELSE ignored,
                      IF Launcher.isFunction
                      THEN Append(launched, Instance(service, Launcher.via, serviceConfig))
                      ELSE launched,
                      loads,
                      IF Launcher.isFunction THEN constructed + 1 ELSE constructed)

\* a launcher that keeps going with the entries resolved before the failing one
initialiseLauncherServiceKeepPartial(config) ==
    IF ~config.defined
    THEN LauncherReturn(<< >>, << >>, TRUE, 0, "sanitize", << >>, 0)
    ELSE LET list      == SanitizeAll(config.list)
             services_ == initialiseServices(list)
             before    == initialiseServices(SubSeq(list, 1, services_.at - 1))
         IN  IF services_.threw
             THEN [launcherLoop(before.resolved, 1, << >>, << >>, services_.loads, 0)
                     EXCEPT !.logged = TRUE, !.raisedAt = services_.at, !.stage = "resolve"]
             ELSE launcherLoop(services_.resolved, 1, << >>, << >>, services_.loads, 0)

initialiseLauncherService(config) ==
    IF ~config.defined
    THEN \* config.services!.map throws inside the try block
         LauncherReturn(<< >>, << >>, TRUE, 0, "sanitize", << >>, 0)
    ELSE LET services_ == initialiseServices(SanitizeAll(config.list))
         IN  IF services_.threw
             THEN LauncherReturn(<< >>, << >>, TRUE, services_.at, "resolve",
                                 services_.loads, 0)
             ELSE launcherLoop(services_.resolved, 1, << >>, << >>, services_.loads, 0)

\* ignoredWorkerServices.includes(serviceName)
Includes(list, v) == \E i \in DOMAIN list : list[i] = v

\* what initialiseWorkerService returns (threw: the exception left the function)
WorkerReturn(threw, result, logged, at, stage, loads, resolved) ==
    [done |-> TRUE, threw |-> threw, services |-> result, logged |-> logged,
     raisedAt |-> at, stage |-> stage, loads |-> loads, resolved |-> resolved]

\* services.map(...) of lines 154-166 from entry i on; an element that maps to
\* undefined is left out, as .filter(Boolean) does afterwards
RECURSIVE workerMap(_, _, _)
workerMap(resolved, i, result) ==
    IF i > Len(resolved)
    THEN [threw |-> FALSE, at |-> 0, services |-> result]
    ELSE LET service       == resolved[i].service
             serviceConfig == resolved[i].serviceConfig
             serviceName   == resolved[i].serviceName
             Service       == ServiceOf(service)
         IN  IF service.typ = "object" /\ NotNamed(serviceName)
             THEN workerMap(resolved, i + 1, Append(result, PassThrough(service)))
             ELSE IF Service.isFunction /\ service.throws
             THEN [threw |-> TRUE, at |-> i, services |-> << >>]
             ELSE workerMap(resolved, i + 1,
                      IF Service.isFunction
                      THEN Append(result, Instance(service, Service.via, serviceConfig))
                      ELSE result)

\* a worker that forgets to filter
WorkerFilterNothing(list, ignoredWorkerServices) == list

\* .filter(([serviceName]) => !ignoredWorkerServices.includes(serviceName))
WorkerFilter(list, ignoredWorkerServices) ==
    SelectSeq(list, LAMBDA e : ~Includes(ignoredWorkerServices, e[1]))

initialiseWorkerService(config, ignoredWorkerServices) ==
    IF ~config.defined
    THEN \* config.services!.map throws before the try block is entered
         WorkerReturn(TRUE, << >>, FALSE, 0, "sanitize", << >>, 0)
    ELSE LET workerServices == WorkerFilter(SanitizeAll(config.list),
                                            ignoredWorkerServices)
             services_      == initialiseServices(workerServices)
             mapped         == workerMap(services_.resolved, 1, << >>)
         IN  IF services_.threw
             THEN WorkerReturn(FALSE, << >>, TRUE, services_.at, "resolve",
                               services_.loads, 0)
             ELSE IF mapped.threw
             THEN WorkerReturn(FALSE, << >>, TRUE, mapped.at, "instantiate",
                               services_.loads, Len(services_.resolved))
             ELSE WorkerReturn(FALSE, mapped.services, FALSE, 0, "none",
                               services_.loads, Len(services_.resolved))

NoResult ==
    [done |-> FALSE, threw |-> FALSE, services |-> << >>, logged |-> FALSE,
     raisedAt |-> 0, stage |-> "none", loads |-> << >>, resolved |-> 0]

NoLauncherResult ==
    [done |-> FALSE, threw |-> FALSE,
     ignoredWorkerServices |-> << >>, launcherServices |-> << >>,
     logged |-> FALSE, raisedAt |-> 0, stage |-> "none",
     loads |-> << >>, constructed |-> 0]

(***************************************************************************)
(* The launcher process and a worker process using initialiseServices.ts   *)
(***************************************************************************)
\* the launcher process calls initialiseLauncherService(config, caps)
LauncherService ==
    /\ phase = "config"
    /\ launcherResult' = initialiseLauncherService(services)
    /\ phase' = "launched"
    /\ UNCHANGED << services, workerResult, workerPlain >>
    /\ UNCHANGED launcherVars

\* a worker calls initialiseWorkerService(config, caps, ignoredWorkerServices)
\* with the list the launcher returned
WorkerService ==
    /\ phase = "launched"
    /\ ~workerResult.done
    /\ workerResult' =
           initialiseWorkerService(services, launcherResult.ignoredWorkerServices)
    /\ UNCHANGED << phase, services, launcherResult, workerPlain >>
    /\ UNCHANGED launcherVars

\* a worker calls initialiseWorkerService(config, caps): ignoredWorkerServices = []
WorkerServiceDefault ==
    /\ phase \in {"config", "launched"}
    /\ ~workerPlain.done
    /\ workerPlain' = initialiseWorkerService(services, << >>)
    /\ UNCHANGED << phase, services, launcherResult, workerResult >>
    /\ UNCHANGED launcherVars

ServicesOff ==
    /\ phase = "off"
    /\ services = [defined |-> FALSE, list |-> << >>]
    /\ launcherResult = NoLauncherResult
    /\ workerResult = NoResult
    /\ workerPlain = NoResult

LauncherOff ==
    /\ pc = "off"
    /\ capabilities = [isArray |-> TRUE, values |-> << >>]
    /\ capsBefore = capabilities
    /\ skipSeleniumInstall = FALSE
    /\ logPath = UNDEFINED
    /\ watchMode = FALSE
    /\ process = UndefinedValue
    /\ handlers = {}
    /\ logStream = "none"
    /\ extCalls = << >>
    /\ stopTally = [calls |-> 0, kills |-> 0, raised |-> 0]
    /\ lastOp = NoOp
    /\ opCount = 0

\* a configuration file has been read
ServicesInit ==
    /\ phase = "config"
    /\ services \in ServiceConfigs
    /\ launcherResult = NoLauncherResult
    /\ workerResult = NoResult
    /\ workerPlain = NoResult
    /\ LauncherOff

ServicesNext ==
    \/ LauncherService
    \/ WorkerService
    \/ WorkerServiceDefault

\* new SeleniumStandaloneLauncher(options, capabilities, config)
LauncherInit ==
    /\ pc = "idle"
    /\ capabilities \in CapabilitySets
    /\ capsBefore = capabilities
    /\ skipSeleniumInstall \in BOOLEAN
    /\ \E optLogPath \in {UNDEFINED, "./logs"}, outputDir \in {UNDEFINED, "./logs"} :
          logPath = ConstructLogPath(optLogPath, outputDir)
    /\ watchMode = FALSE
    /\ process = UndefinedValue
    /\ handlers = {}
    /\ logStream = "none"
    /\ extCalls = << >>
    /\ stopTally = [calls |-> 0, kills |-> 0, raised |-> 0]
    /\ lastOp = NoOp
    /\ opCount = 0
    /\ ServicesOff

LauncherNext ==
    \/ \E watch \in BOOLEAN, fsOk \in BOOLEAN : onPrepare(watch, fsOk)
    \/ \E fsOk \in BOOLEAN : onPrepareResume(fsOk)
    \/ onComplete
    \/ _stopProcess

SpecLauncher == LauncherInit /\ [][LauncherNext]_vars

SpecServices == ServicesInit /\ [][ServicesNext]_vars

Init == LauncherInit \/ ServicesInit
Next == LauncherNext \/ ServicesNext
Spec == Init /\ [][Next]_vars

(***************************************************************************)
(* Properties of SeleniumStandaloneLauncher (checked under SpecLauncher)   *)
(***************************************************************************)
\* line 71 has been executed: this.process is set
ProcessSet == Truthy(process)

\* C1: once this.process is set, over any sequence of _stopProcess
\* invocations (onComplete, direct calls, registered handlers) kill is invoked
\* on the process exactly once in total and no invocation raises an error.
C1_KillExactlyOnce ==
    stopTally.calls >= 1 => (stopTally.kills = 1 /\ stopTally.raised = 0)

\* the calls of the external library among extCalls
LibraryCalls == SelectSeq(extCalls, LAMBDA c : c[1] \in {"install", "start"})

\* C6: once onPrepare is past its start step: unless install is skipped,
\* install was invoked with the install arguments before start; start was
\* invoked with the start arguments and its result is this.process; with
\* install skipped, install was never invoked.
C6_InstallThenStart ==
    ProcessSet =>
        /\ process.typ = "childProcess"
        /\ \E i \in DOMAIN LibraryCalls : LibraryCalls[i] = << "start", StartArgs >>
        /\ skipSeleniumInstall =>
               \A i \in DOMAIN LibraryCalls : LibraryCalls[i][1] # "install"
        /\ ~skipSeleniumInstall =>
               /\ LibraryCalls # << >>
               /\ LibraryCalls[1] = << "install", InstallArgs >>

\* C7: onComplete stops the server exactly when the launcher is not in watch
\* mode: without watch mode it invokes _stopProcess, which kills the process
\* when one is set and otherwise is a no-op that raises nothing (also for a
\* direct call repeated); in watch mode onComplete issues no kill.
C7_CompleteStopsUnlessWatch ==
    /\ lastOp.op = "onComplete" =>
          IF ~lastOp.watch
          THEN /\ lastOp.raised = "none"
               /\ lastOp.stop = (IF ProcessSet THEN "killed" ELSE "noop")
          ELSE lastOp.stop = "notCalled"
    /\ (lastOp.op = "_stopProcess" /\ ~ProcessSet) =>
          (lastOp.stop = "noop" /\ lastOp.raised = "none")

\* C5: after onPrepare has merged the defaults, every capability descriptor
\* (of an array or of an object of descriptors) has each of protocol,
\* hostname, port and path: with the value it had before if it defined the
\* field, with the default otherwise; every other field is unchanged.
C5_DefaultsMerged ==
    ProcessSet =>
        /\ capabilities.isArray = capsBefore.isArray
        /\ Len(capabilities.values) = Len(capsBefore.values)
        /\ \A i \in DOMAIN capsBefore.values :
              LET before == capsBefore.values[i]
                  after  == capabilities.values[i]
              IN  /\ DOMAIN after = DOMAIN before \cup ConnectionFields
                  /\ \A f \in DOMAIN after :
                        IF f \in DOMAIN before
                        THEN after[f] = before[f]
                        ELSE after[f] = DEFAULT_CONNECTION[f]

\* C5 witness: an object of two descriptors has been prepared; one descriptor
\* came with its own protocol and without a port and now has the default port.
C5_Witness ==
    /\ ProcessSet
    /\ ~capabilities.isArray
    /\ Len(capabilities.values) = 2
    /\ \E i \in DOMAIN capsBefore.values :
          /\ "protocol" \in DOMAIN capsBefore.values[i]
          /\ "port" \notin DOMAIN capsBefore.values[i]
          /\ capabilities.values[i]["protocol"] = "https"
          /\ capabilities.values[i]["port"] = DefaultPort

(***************************************************************************)
(* Properties of initialiseServices.ts (checked under SpecServices)        *)
(***************************************************************************)
RECURSIVE Flatten(_)
Flatten(ss) == IF ss = << >> THEN << >> ELSE Head(ss) \o Flatten(Tail(ss))

Count(list, v) == Cardinality({ i \in DOMAIN list : list[i] = v })

\* the sanitized entries of the configuration
Entries == SanitizeAll(services.list)

\* entry i names a package that cannot be loaded
Unresolvable(i) == Entries[i][1].typ = "string" /\ ~Entries[i][1].pkg.found

\* entry i names a package whose module has no function-valued default export
\* and is not callable
PlainNamed(i) ==
    /\ Entries[i][1].typ = "string"
    /\ Entries[i][1].pkg.found
    /\ Entries[i][1].pkg.exports.default # "fn"
    /\ Entries[i][1].pkg.exports.typ # "function"

\* the value entry e resolves to when loading succeeds
ResolvedValue(e) == IF e[1].typ = "string" THEN ObjectValue(e[1].pkg.exports) ELSE e[1]

\* C2: when loading any named entry throws, whatever its position and the
\* entries before it, initialiseLauncherService does not throw, logs, and
\* returns both lists empty; no service before the failing entry is
\* instantiated.
C2_LauncherFailureIsEmpty ==
    (launcherResult.done /\ \E i \in DOMAIN Entries : Unresolvable(i)) =>
        /\ ~launcherResult.threw
        /\ launcherResult.logged
        /\ launcherResult.ignoredWorkerServices = << >>
        /\ launcherResult.launcherServices = << >>
        /\ launcherResult.constructed = 0

\* C2 witness: a class is configured before a package that cannot be loaded
C2_Witness ==
    /\ launcherResult.done
    /\ Len(Entries) = 2
    /\ Entries[1][1].typ = "function" /\ ~Entries[1][1].throws
    /\ Unresolvable(2)
    /\ launcherResult.loads = << Entries[2][1] >>

\* C3: initialiseWorkerService never lets an exception out: whenever a step
\* raises (sanitizing or filtering the list, loading a package, instantiating
\* a constructor), the error is logged and [] is returned.
C3_WorkerNeverThrows ==
    \A r \in {workerResult, workerPlain} :
        r.done => /\ ~r.threw
                  /\ r.stage # "none" => (r.logged /\ r.services = << >>)

\* the entries the worker does not filter out, given the launcher's list
NotIgnored == { j \in DOMAIN Entries :
                  ~Includes(launcherResult.ignoredWorkerServices, Entries[j][1]) }

\* what C4 says of entry i, a named module without function default that is
\* not callable
C4_Holds(i) ==
    LET name == Entries[i][1]
    IN  /\ Includes(launcherResult.ignoredWorkerServices, name)
        /\ workerResult.done =>
              /\ ~Includes(workerResult.loads, name)
              /\ Cardinality({ j \in DOMAIN Entries : Entries[j][1] = name }) = 1 =>
                    Count(launcherResult.loads, name) + Count(workerResult.loads, name) = 1
              /\ workerResult.resolved = Cardinality(NotIgnored)
              /\ \A j \in NotIgnored :
                    Entries[j][1].typ = "string" => Includes(workerResult.loads, Entries[j][1])

LoopPassed(i) ==
    \/ launcherResult.stage = "none"
    \/ launcherResult.stage = "instantiate" /\ launcherResult.raisedAt > i

C8_ExpectedOriginal(e) ==
    LET v == ResolvedValue(e)
    IN  IF e[1].typ = "object" THEN << PassThrough(e[1]) >>
        ELSE IF v.default = "fn" THEN << Instance(v, "default", e[2]) >>
        ELSE IF v.typ = "function" THEN << Instance(v, "self", e[2]) >>
        ELSE << >>

C8_ExpectedOriginal_Each(list) == [i \in DOMAIN list |-> C8_ExpectedOriginal(list[i])]

\* C8 amended, for one entry: the value itself is instantiated only when it has
\* no default export at all.
C8_ExpectedAmended(e) ==
    LET v == ResolvedValue(e)
    IN  IF e[1].typ = "object" THEN << PassThrough(e[1]) >>
        ELSE IF v.default = "fn" THEN << Instance(v, "default", e[2]) >>
        ELSE IF v.default = "none" /\ v.typ = "function"
        THEN << Instance(v, "self", e[2]) >>
        ELSE << >>

C8_ExpectedAmended_Each(list) == [i \in DOMAIN list |-> C8_ExpectedAmended(list[i])]

\* the entries a worker call keeps, in configuration order
KeptEntries(ignored) == SelectSeq(Entries, LAMBDA e : ~Includes(ignored, e[1]))

\* C8 as stated: when no step raises, initialiseWorkerService returns, in
\* configuration order, what each non-ignored entry yields (see
\* C8_ExpectedOriginal).
C8_Original ==
    /\ (workerResult.done /\ workerResult.stage = "none") =>
          workerResult.services =
              Flatten(C8_ExpectedOriginal_Each(KeptEntries(launcherResult.ignoredWorkerServices)))
    /\ (workerPlain.done /\ workerPlain.stage = "none") =>
          workerPlain.services = Flatten(C8_ExpectedOriginal_Each(KeptEntries(<< >>)))

\* C8 amended: the same with C8_ExpectedAmended: an entry whose default export
\* is present but not callable contributes no element, also when the value
\* itself is callable.
C8_WorkerResult ==
    /\ (workerResult.done /\ workerResult.stage = "none") =>
          workerResult.services =
              Flatten(C8_ExpectedAmended_Each(KeptEntries(launcherResult.ignoredWorkerServices)))
    /\ (workerPlain.done /\ workerPlain.stage = "none") =>
          workerPlain.services = Flatten(C8_ExpectedAmended_Each(KeptEntries(<< >>)))

\* C8 witness: a hook object and a package with a default-exported class give
\* the object itself and one instance built with the entry's options
C8_Witness ==
    /\ workerPlain.done /\ workerPlain.stage = "none"
    /\ Len(Entries) = 2
    /\ Entries[1][1] = HookObject
    /\ Entries[2][1].typ = "string" /\ Entries[2][2] = UserOptions
    /\ Len(workerPlain.services) = 2
    /\ workerPlain.services[1] = PassThrough(HookObject)
    /\ workerPlain.services[2].via = "default"
    /\ workerPlain.services[2].args = << UserOptions, Caps, Config >>

\* C9 as stated, for one resolved entry: a pre-built object is appended
\* itself; otherwise one instance of the launcher variant when it is callable,
\* or else of the value itself when it is callable; nothing only when neither is.
C9_ExpectedOriginal(e) ==
    LET v == ResolvedValue(e)
    IN  IF e[1].typ = "object" THEN << PassThrough(e[1]) >>
        ELSE IF v.launcher = "fn" THEN << Instance(v, "launcher", e[2]) >>
        ELSE IF v.typ = "function" THEN << Instance(v, "self", e[2]) >>
        ELSE << >>

C9_ExpectedOriginal_Each(list) == [i \in DOMAIN list |-> C9_ExpectedOriginal(list[i])]

\* C9 amended, for one resolved entry: the value itself is instantiated only when
\* it has no launcher property at all.
C9_ExpectedAmended(e) ==
    LET v == ResolvedValue(e)
    IN  IF e[1].typ = "object" THEN << PassThrough(e[1]) >>
        ELSE IF v.launcher = "fn" THEN << Instance(v, "launcher", e[2]) >>
        ELSE IF v.launcher = "none" /\ v.typ = "function"
        THEN << Instance(v, "self", e[2]) >>
        ELSE << >>

C9_ExpectedAmended_Each(list) == [i \in DOMAIN list |-> C9_ExpectedAmended(list[i])]

\* every entry was resolved: the loop of initialiseLauncherService was entered
LauncherResolved == launcherResult.done /\ launcherResult.stage \in {"none", "instantiate"}

\* C9 as stated: launcherServices holds, for every resolved entry in order,
\* what C9_ExpectedOriginal gives.
C9_Original ==
    LauncherResolved =>
        launcherResult.launcherServices = Flatten(C9_ExpectedOriginal_Each(Entries))

\* the entries the loop got past before an instantiation raised
EntriesPassed ==
    IF launcherResult.stage = "instantiate"
    THEN SubSeq(Entries, 1, launcherResult.raisedAt - 1)
    ELSE Entries

\* C9 amended: launcherServices holds, for every resolved entry the loop got
\* past before an instantiation raised, in order, what C9_ExpectedAmended
\* gives; the entry whose constructor raised and the entries after it add
\* nothing.
C9_LauncherServices ==
    LauncherResolved =>
        launcherResult.launcherServices = Flatten(C9_ExpectedAmended_Each(EntriesPassed))

\* C9 witness: a class with a launcher variant and a callable module without
\* one give two instances, of the variant and of the module itself
C9_Witness ==
    /\ launcherResult.done /\ launcherResult.stage = "none"
    /\ Len(Entries) = 2
    /\ Entries[1][1].typ = "function" /\ Entries[1][1].launcher = "fn"
    /\ Entries[2][1].typ = "string" /\ Entries[2][2] = UserOptions
    /\ Len(launcherResult.launcherServices) = 2
    /\ launcherResult.launcherServices[1].via = "launcher"
    /\ launcherResult.launcherServices[2].via = "self"
    /\ launcherResult.launcherServices[2].args = << UserOptions, Caps, Config >>
    /\ launcherResult.constructed = 2

\* C10: the worker's result with the launcher's ignoredWorkerServices equals
\* its result with the default [] (same services, same order, same arguments).
C10_IgnoreListChangesNothing ==
    (launcherResult.done /\ workerResult.done /\ workerPlain.done) =>
        /\ workerResult.threw = workerPlain.threw
        /\ workerResult.services = workerPlain.services

\* C10 witness: the launcher ignored a name, the worker loaded less than a
\* worker without the list, and both returned the same non-empty result
C10_Witness ==
    /\ launcherResult.done /\ workerResult.done /\ workerPlain.done
    /\ launcherResult.ignoredWorkerServices # << >>
    /\ Len(workerResult.loads) < Len(workerPlain.loads)
    /\ workerPlain.services # << >>
    /\ workerResult.services = workerPlain.services

====
